---- MODULE Spec2Model ----
(***************************************************************************)
(* mongoose-tenant: document-level multi-tenancy plugin for mongoose.      *)
(*                                                                         *)
(* The model follows the plugin core (class MongooseTenant and the         *)
(* function createBoundModel).  One schema with the plugin applied is      *)
(* compiled to one unbound model; the collection behind it is `store`.     *)
(* JavaScript member lookup is modelled explicitly: a class has static     *)
(* members (read as Model.x) and instance members (read as doc.x), and a   *)
(* method taken off its object and called bare runs with `this` undefined. *)
(***************************************************************************)
EXTENDS Integers, Sequences, FiniteSets, TLC

(***************************************************************************)
(* Bounds of the model.                                                    *)
(***************************************************************************)
MaxModels == 2      \* bound classes built by the factory
MaxStore  == 2      \* documents ever inserted into the collection
MaxPipeline == 2    \* stages of an aggregation pipeline passed by a caller
MaxIndexes == 2     \* schema-level indexes declared before the plugin is applied
MaxCalls == 2       \* factory invocations counted per model name and cache key
MaxOutstanding == 2 \* operations issued and not yet sent to the store

(***************************************************************************)
(* JavaScript values.                                                      *)
(***************************************************************************)
Undefined == [t |-> "undefined"]
Absent    == [t |-> "absent"]          \* key not present in an object
Num(n)    == [t |-> "number", v |-> n]
Str(s)    == [t |-> "string", v |-> s]
TypeError == [t |-> "TypeError"]       \* a thrown TypeError
Null      == [t |-> "null"]
Nullish   == {Null, Undefined}

\* Errors of the store: a document failed schema validation; a write was refused.
ValidationError == [t |-> "ValidationError"]
WriteError      == [t |-> "MongoServerError"]

Digits == <<"0", "1", "2", "3", "4", "5", "6", "7", "8", "9">>

\* String(v), as used for the cache key.
String(v) ==
  CASE v.t = "string"    -> v.v
    [] v.t = "number"    -> Digits[v.v + 1]
    [] v.t = "undefined" -> "undefined"
    [] OTHER             -> "null"

\* Tenant identifiers the application passes around: 1 and "1" stringify alike.
Tenants == {Num(1), Str("1"), Str("2")}

\* Tenant identifiers used in documents, filters and payloads.
DataTenants == {Num(1), Str("2")}

FieldValues == {Str("x")}

(***************************************************************************)
(* Resolved options (MongooseTenant constructor).                          *)
(***************************************************************************)
DefaultOptions ==
  [enabled |-> TRUE, tenantIdKey |-> "tenant", tenantIdType |-> "String",
   accessorMethod |-> Str("byTenant"), requireTenantId |-> FALSE]

OptionKeys == DOMAIN DefaultOptions

\* Values a caller supplies for each key; a key may also be supplied as undefined.
OptionValues ==
  [enabled |-> BOOLEAN, tenantIdKey |-> {"tenant_id"}, tenantIdType |-> {"Number"},
   accessorMethod |-> {Str("tenancy"), Undefined}, requireTenantId |-> BOOLEAN]

\* Partial options objects: any subset of the keys ({} when none is passed).
PartialOptions ==
  LET With(P, k) == P \cup {o @@ (k :> v) : o \in P, v \in OptionValues[k]}
  IN  With(With(With(With(With({<<>>}, "enabled"), "tenantIdKey"), "tenantIdType"),
                "accessorMethod"), "requireTenantId")

\* A merge in which the defaults win over the keys of `given`.
MongooseTenantDefaultsLast(given) == DefaultOptions

\* The constructor's merge {enabled: true, ..., ...options}: a key of `given`
\* wins over the default, whatever its value.
MongooseTenant(given) ==
  [k \in OptionKeys |-> IF k \in DOMAIN given THEN given[k] ELSE DefaultOptions[k]]

\* The introspection getters, read on a plugin instance with options o.
isEnabled(o) == o.enabled
getTenantIdKey(o) == o.tenantIdKey
getTenantIdType(o) == o.tenantIdType
getAccessorMethod(o) == o.accessorMethod
isTenantIdRequired(o) == o.requireTenantId

\* obj[key] === true in JavaScript (false when the object has no such key).
IsTrue(obj, key) == key \in DOMAIN obj /\ obj[key] = TRUE

(***************************************************************************)
(* Schemas.  `paths` are the declared fields in declaration order, each    *)
(* with its options; `indexes` are the schema-level indexes (schema.index),*)
(* each a pair of a key list (field and direction, in order) and options.  *)
(***************************************************************************)
Key(field, dir) == [field |-> field, dir |-> dir]
Path(key, opts) == [key |-> key, options |-> opts]
Index(def, opts) == [def |-> def, options |-> opts]

Field1Options ==
  {[type |-> "String"],
   [type |-> "String", index |-> TRUE],
   [type |-> "String", unique |-> TRUE],
   [type |-> "String", unique |-> TRUE, sparse |-> TRUE],
   [type |-> "String", unique |-> TRUE, partialFilterExpression |-> "field2 exists"],
   [type |-> "String", unique |-> TRUE, preserveUniqueKey |-> TRUE]}

Field2Options == {[type |-> "Number", index |-> TRUE], [type |-> "Number", unique |-> TRUE]}

IndexDefs == {<<Key("field1", 1)>>, <<Key("field2", -1), Key("field1", 1)>>}

IndexOptionSets ==
  {[name |-> "index2"], [unique |-> TRUE], [unique |-> TRUE, preserveUniqueKey |-> TRUE]}

DeclaredIndexes == {Index(d, o) : d \in IndexDefs, o \in IndexOptionSets}

DeclaredSchemas ==
  {[paths |-> <<Path("field1", o1), Path("field2", o2)>>, indexes |-> ix] :
     o1 \in Field1Options, o2 \in Field2Options,
     ix \in UNION {[1..n -> DeclaredIndexes] : n \in 0..MaxIndexes}}

\* new Schema({}) of createTestModel({}): no field, no index.
PlainSchema == [paths |-> <<>>, indexes |-> <<>>]

\* extendSchema without the isEnabled guard.
extendSchemaUnguarded(sch, o) ==
  [sch EXCEPT !.paths =
     Append(@, Path(o.tenantIdKey, [index |-> TRUE, type |-> o.tenantIdType,
                                    required |-> o.requireTenantId]))]

\* Schema.add appending whether or not the schema has the path.
SchemaAddAppending(paths, path) == Append(paths, path)

\* Schema.add of one path: a path of that name is redefined, a new one added.
SchemaAdd(paths, path) ==
  IF \E i \in DOMAIN paths : paths[i].key = path.key
  THEN [i \in DOMAIN paths |-> IF paths[i].key = path.key THEN path ELSE paths[i]]
  ELSE Append(paths, path)

\* extendSchema: adds the tenant field unless the plugin is disabled.
extendSchema(sch, o) ==
  IF ~o.enabled THEN sch
  ELSE [sch EXCEPT !.paths =
          SchemaAdd(@, Path(o.tenantIdKey, [index |-> TRUE, type |-> o.tenantIdType,
                                            required |-> o.requireTenantId]))]

\* A key list with the tenant key put last.
tenantLastIndex(def, tenantIdKey) ==
  SelectSeq(def, LAMBDA k : k.field # tenantIdKey) \o <<Key(tenantIdKey, 1)>>

\* The key list {[tenantIdKey]: 1, ...index[0]}: the tenant key first; a key of
\* the original list that is the tenant key gives it its direction.
tenantAwareIndex(def, tenantIdKey) ==
  LET own == SelectSeq(def, LAMBDA k : k.field = tenantIdKey)
      dir == IF own = <<>> THEN 1 ELSE own[Len(own)].dir
  IN  <<Key(tenantIdKey, dir)>> \o SelectSeq(def, LAMBDA k : k.field # tenantIdKey)

\* A skip test that looks at uniqueness only.
SkipNotUnique(opts) == ~IsTrue(opts, "unique")

\* The test both loops of compoundIndexes start with: an index (or field) that
\* is not unique, or that sets preserveUniqueKey, is skipped.
SkipIndex(opts) == ~IsTrue(opts, "unique") \/ IsTrue(opts, "preserveUniqueKey")

\* Indexes a field declares through its own options (unique, index).
PathIndexes(paths) ==
  LET F[i \in 0..Len(paths)] ==
        IF i = 0 THEN <<>>
        ELSE IF IsTrue(paths[i].options, "unique") \/ IsTrue(paths[i].options, "index")
          THEN Append(F[i - 1], Index(<<Key(paths[i].key, 1)>>, paths[i].options))
        ELSE F[i - 1]
  IN  F[Len(paths)]

\* schema.indexes(): the field-level indexes, then the schema-level ones.
indexes(sch) == PathIndexes(sch.paths) \o sch.indexes

\* compoundIndexes: rewrites the key list of every schema-level unique index
\* without preserveUniqueKey, then declares for every unique field without
\* preserveUniqueKey a compound index carrying the field's options.  The field's
\* own options are left as they are.
compoundIndexes(sch, o) ==
  IF ~o.enabled THEN sch
  ELSE
    LET rewritten ==
          [i \in DOMAIN sch.indexes |->
             IF SkipIndex(sch.indexes[i].options) THEN sch.indexes[i]
             ELSE Index(tenantAwareIndex(sch.indexes[i].def, o.tenantIdKey),
                        sch.indexes[i].options)]
        G[i \in 0..Len(sch.paths)] ==
          IF i = 0 THEN rewritten
          ELSE IF SkipIndex(sch.paths[i].options) THEN G[i - 1]
          ELSE Append(G[i - 1],
                      Index(<<Key(o.tenantIdKey, 1), Key(sch.paths[i].key, 1)>>,
                            [k \in DOMAIN sch.paths[i].options \cup {"unique"} |->
                               IF k = "unique" THEN TRUE ELSE sch.paths[i].options[k]]))
    IN  [sch EXCEPT !.indexes = G[Len(sch.paths)]]

\* apply(): extendSchema().compoundIndexes() (injectApi and installMiddleWare
\* are the state machine below).
apply(sch, o) == compoundIndexes(extendSchema(sch, o), o)

ModelName == "M"

VARIABLES
  declared,    \* what the application wrote: the options passed and the schema declared
  options,     \* the resolved options of the plugin instance
  schema,      \* the schema after apply()
  discriminators, \* discriminator keys registered on the compiled model
  invoked,     \* factory invocations made by the accessor, per <<modelName, key>>
  outstanding, \* queries issued whose exec() has not reached the store yet
  callerPipeline, \* a pipeline array the caller keeps and passes to several calls
  enabled,     \* isEnabled as captured by the accessor's closure (injectApi)
  modelCache,  \* _modelCache: modelName -> (String(tenantId) -> class ref)
  models,      \* classes built by createTenantAwareModel, in creation order
  store,       \* the collection: sequence of persisted documents
  nextId,      \* next _id the store hands out
  acc,         \* outcome of the latest accessor call per tenant value
  last         \* the latest operation: what the caller gave, what reached the store

vars == <<declared, options, schema, discriminators, invoked, outstanding,
          callerPipeline, enabled, modelCache, models, store, nextId, acc, last>>

(***************************************************************************)
(* Classes.  Ref 0 is the unbound model compiled from the schema; ref i>0  *)
(* is models[i], a class returned by createBoundModel.                     *)
(***************************************************************************)
BaseRef == 0

\* The model Model.discriminator(key, schema) returns: compiled from the merged
\* schema, so it carries the same accessor static, hooks and plugin instance.
DiscRef == -1
\* The same schema compiled under the same model name on a second connection
\* (otherConnection.model(ModelName, schema)): same statics, same plugin instance.
OtherConnectionRef == -2
DiscriminatorKey == "disc_key"
DiscriminatorName == "D"

Plugin  == [t |-> "MongooseTenant"]     \* the plugin instance (`this` of its methods)

\* Members the class expression of createBoundModel declares `static`: none.
ClassStaticMembers == {}

\* Members it declares on the instance side (fields and prototype methods).
ClassInstanceMembers == {"db", "hasTenantContext", "getTenant", "aggregate", "insertMany"}

\* createBoundModel(BaseModel, tenantId, tenantIdKey, db): the class extending
\* BaseModel that closes over tenantId.
createBoundModel(BaseModel, tenantId) ==
  [base |-> BaseModel, tenantId |-> tenantId,
   static |-> ClassStaticMembers, proto |-> ClassInstanceMembers]

\* The compiled model at the root of m's base chain.
RECURSIVE RootOf(_, _)
RootOf(ms, m) == IF m <= BaseRef THEN m ELSE RootOf(ms, ms[m].base)

\* Model.modelName: a bound class has the one of its base (static copy loop).
ModelNameOf(ms, m) == IF RootOf(ms, m) = DiscRef THEN DiscriminatorName ELSE ModelName

\* BaseModel.discriminators: key -> model, empty when it has none.
DiscriminatorsOf(ms, discs, m) ==
  IF m = BaseRef THEN [k \in discs |-> DiscRef]
  ELSE IF m < BaseRef THEN <<>>
  ELSE ms[m].discriminators

\* The keys of an object in enumeration order.
RECURSIVE KeySeq(_)
KeySeq(S) ==
  IF S = {} THEN <<>>
  ELSE LET k == CHOOSE x \in S : TRUE IN <<k>> \o KeySeq(S \ {k})

\* The class on which a static read of `prop` through class m lands: the nearest
\* class in m's base chain that declares prop static, 0 when none does (the
\* static copy loop and inheritance both end at the compiled model's statics).
RECURSIVE StaticOwner(_, _, _)
StaticOwner(ms, m, prop) ==
  IF m <= BaseRef THEN BaseRef
  ELSE IF prop \in ms[m].static THEN m
  ELSE StaticOwner(ms, ms[m].base, prop)

\* Same for a read through a document built by class m.
RECURSIVE InstanceOwner(_, _, _)
InstanceOwner(ms, m, prop) ==
  IF m <= BaseRef THEN BaseRef
  ELSE IF prop \in ms[m].proto THEN m
  ELSE InstanceOwner(ms, ms[m].base, prop)

\* Model.hasTenantContext (true or undefined), read on the class.
ModelHasTenantContext(ms, m) == StaticOwner(ms, m, "hasTenantContext") # BaseRef

\* Model.getTenant(): the closed-over tenantId, TypeError when the class has no
\* such static method.
ModelGetTenant(ms, m) ==
  LET o == StaticOwner(ms, m, "getTenant")
  IN  IF o = BaseRef THEN TypeError ELSE ms[o].tenantId

\* new Model().hasTenantContext and new Model().getTenant().
DocHasTenantContext(ms, m) == InstanceOwner(ms, m, "hasTenantContext") # BaseRef

DocGetTenant(ms, m) ==
  LET o == InstanceOwner(ms, m, "getTenant")
  IN  IF o = BaseRef THEN TypeError ELSE ms[o].tenantId

\* createTenantAwareModel, run with the given `this`: it reads
\* this.getTenantIdKey() first, which throws when `this` is undefined.  Otherwise
\* it yields the classes it creates, to be placed after those of ms: first the
\* class it returns, then the classes of the discriminator loop, which calls
\* this.createTenantAwareModel for every discriminator of BaseModel.
\* this.getTenantIdKey(), the factory's first statement, with no `this`.
FactoryThrows(self) == self = Undefined

RECURSIVE createTenantAwareModel(_, _, _, _, _)
createTenantAwareModel(self, ms, discs, BaseModel, tenantId) ==
  IF FactoryThrows(self) THEN TypeError
  ELSE
    LET ds   == DiscriminatorsOf(ms, discs, BaseModel)
        keys == KeySeq(DOMAIN ds)
        own  == createBoundModel(BaseModel, tenantId)
        F[i \in 0..Len(keys)] ==
          IF i = 0 THEN [made |-> <<>>, refs |-> <<>>]
          ELSE [made |-> F[i - 1].made \o
                           createTenantAwareModel(self, ms \o <<own>> \o F[i - 1].made,
                                                  discs, ds[keys[i]], tenantId),
                refs |-> Append(F[i - 1].refs, Len(ms) + 1 + Len(F[i - 1].made) + 1)]
        reg  == [k \in DOMAIN ds |->
                   F[Len(keys)].refs[CHOOSE i \in 1..Len(keys) : keys[i] = k]]
    IN  <<own @@ [discriminators |-> reg]>> \o F[Len(keys)].made

\* injectApi stores the method in a local (`const createTenantAwareModel =
\* this.createTenantAwareModel`) and calls it as a plain function: its `this`.
AccessorFactoryThis == Undefined

(***************************************************************************)
(* Models registered on the connection besides the host model, as         *)
(* population references them by name: each with the plugin applied to its *)
(* schema (a plugin instance of its own), or undefined when it has none.   *)
(***************************************************************************)
\* The operations isCompatibleTo looks for on the other object.
PluginApi == {"getAccessorMethod", "getTenantIdKey"}

\* An object as isCompatibleTo sees it: the properties of PluginApi that are
\* functions, and the key its getTenantIdKey (if any) returns.
Object(functions, tenantIdKey, isOn) ==
  [tenantIdKey |-> tenantIdKey, enabled |-> isOn, functions |-> functions]

\* A MongooseTenant instance: the class defines both operations.
PluginInstance(tenantIdKey, isOn) == Object(PluginApi, tenantIdKey, isOn)

Registry ==
  [SubDoc      |-> PluginInstance("tenant", TRUE),
   SubDocOther |-> PluginInstance("otherTenantId", TRUE),
   SubDocPlain |-> Undefined]

\* A model registered under `name`: as compiled (tenant Absent), or a class
\* bound to a tenant.
UnboundRef(name) == [t |-> "model", name |-> name, tenant |-> Absent]
BoundRef(name, tenantId) == [t |-> "model", name |-> name, tenant |-> tenantId]

\* this.isCompatibleTo(plugin), with tenantIdKey = this.getTenantIdKey().
isCompatibleToUntyped(tenantIdKey, plugin) ==
  /\ plugin \notin Nullish
  /\ tenantIdKey = plugin.tenantIdKey

isCompatibleTo(tenantIdKey, plugin) ==
  /\ plugin \notin Nullish
  /\ "getAccessorMethod" \in plugin.functions
  /\ "getTenantIdKey" \in plugin.functions
  /\ tenantIdKey = plugin.tenantIdKey

\* The accessor static of the model registered under `name`, called with
\* tenantId: what it returns or throws, and the cache it leaves (one cache per
\* plugin instance; model names are unique on a connection, so `cache` holds
\* them all by model name).
accessorOf(cache, name, tenantId) ==
  LET key    == String(tenantId)
      byName == IF name \in DOMAIN cache THEN cache[name] ELSE <<>>
      made   == IF FactoryThrows(AccessorFactoryThis)
                THEN TypeError ELSE BoundRef(name, tenantId)
  IN  IF ~Registry[name].enabled THEN [ret |-> UnboundRef(name), cache |-> cache]
      ELSE IF key \in DOMAIN byName
        THEN [ret |-> byName[key],
              cache |-> [n \in DOMAIN cache \cup {name} |-> IF n = name THEN byName ELSE cache[n]]]
      ELSE IF made = TypeError
        THEN [ret |-> TypeError,
              cache |-> [n \in DOMAIN cache \cup {name} |-> IF n = name THEN byName ELSE cache[n]]]
      ELSE [ret |-> made,
            cache |-> [n \in DOMAIN cache \cup {name} |->
                         IF n = name THEN (byName @@ (key :> made)) ELSE cache[n]]]

\* awareDb.model(name) of createTenantAwareDb(unawareDb, tenantId), created by
\* the plugin whose tenant key is tenantIdKey.
awareDbModel(cache, tenantIdKey, tenantId, name) ==
  IF ~isCompatibleTo(tenantIdKey, Registry[name])
  THEN [ret |-> UnboundRef(name), cache |-> cache]
  ELSE accessorOf(cache, name, tenantId)

(***************************************************************************)
(* Operation names.                                                        *)
(***************************************************************************)
\* Query operations the filter hook is registered for (schema.pre list 1).
FilterOps ==
  {"count", "countDocuments", "deleteMany", "deleteOne", "estimatedDocumentCount",
   "find", "findOne", "findOneAndDelete", "findOneAndRemove", "remove"}

\* Query operations the update hook is registered for (schema.pre list 2).
UpdateOps == {"findOneAndUpdate", "update", "updateMany", "updateOne"}

\* Document operations the document hook is registered for (schema.pre list 3).
DocumentOps == {"save", "updateOne"}

\* Entry points of a mongoose model that appear in none of the three lists.
UnhookedOps == {"distinct", "replaceOne", "findOneAndReplace", "bulkWrite"}

(***************************************************************************)
(* Requests.  A filter and an update payload are objects over the keys     *)
(* tenantIdKey and someField; Absent marks a key the object does not have. *)
(***************************************************************************)
OrAbsent(S) == S \cup {Absent}

Filters == [tenant : OrAbsent(DataTenants), someField : OrAbsent(FieldValues)]

\* An update payload: `top` is the top-level tenant key, `set` the tenant key
\* inside $set, `someField` a top-level field, `overwrite` the query option.
\* `stages` is the tenant value the $set stages of an aggregation-pipeline
\* (array) payload assign; Absent for a payload that is a plain object.
AllUpdates ==
  [top : OrAbsent(DataTenants), set : OrAbsent(DataTenants),
   someField : OrAbsent(FieldValues), overwrite : BOOLEAN, stages : {Absent}]

\* The payloads callers send: not empty; a tenant named twice is named alike; a
\* replacement document (overwrite) has no $set.
Updates ==
  {u \in AllUpdates :
     /\ (u.top # Absent /\ u.set # Absent) => u.top = u.set
     /\ u.overwrite => u.set = Absent
     /\ u.someField = Absent => (u.top = Absent /\ u.set # Absent)}

\* Replacement documents for replaceOne / findOneAndReplace.
Replacements ==
  {u \in AllUpdates : u.top # Absent /\ u.set = Absent /\ u.someField = Absent
                        /\ u.overwrite}

NoFilter == [tenant |-> Absent, someField |-> Absent]
NoUpdate ==
  [top |-> Absent, set |-> Absent, someField |-> Absent, overwrite |-> FALSE,
   stages |-> Absent]

\* Array payloads: [{ $set: { tenant: v } }].
PipelineUpdates == {[NoUpdate EXCEPT !.stages = v] : v \in DataTenants}

\* Query.setQuery({...this.getQuery(), [tenantIdKey]: tenantId})
SetQueryTenant(filter, tenantId) == [filter EXCEPT !.tenant = tenantId]

\* Query.set(tenantIdKey, tenantId): drops the top-level key and puts the value
\* under $set.  On an array payload that is a property named $set of the array
\* object, beside its stages.
QuerySet(update, tenantId) == [update EXCEPT !.top = Absent, !.set = tenantId]

(***************************************************************************)
(* Aggregation pipelines: an array of stages, or undefined when the caller *)
(* passes none.  A stage is a $match with its filter on the tenant key, or *)
(* another stage ($group).                                                 *)
(***************************************************************************)
Arr(seq) == [t |-> "array", v |-> seq]

Match(tenant, someField) ==
  [stage |-> "$match", tenant |-> tenant, someField |-> someField]
MatchStage(tenant) == Match(tenant, Absent)
GroupStage == [stage |-> "$group", tenant |-> Absent, someField |-> Absent]

Stages ==
  {Match(v, x) : v \in OrAbsent(DataTenants), x \in OrAbsent(FieldValues)} \cup {GroupStage}

Pipelines == {Undefined} \cup {Arr(p) : p \in UNION {[1..n -> Stages] : n \in 0..MaxPipeline}}

\* The aggregate member of createBoundModel, run with tId = this.getTenant():
\* the pipeline it hands to super.aggregate.  With an empty array pipeline[0] is
\* undefined and reading its $match throws.
aggregate(tId, pipeline) ==
  IF pipeline = Undefined THEN Arr(<<MatchStage(tId)>>)
  ELSE IF pipeline.v = <<>> THEN TypeError
  ELSE IF pipeline.v[1].stage = "$match"
    THEN Arr([pipeline.v EXCEPT ![1].tenant = tId])
  ELSE Arr(<<MatchStage(tId)>> \o pipeline.v)

\* The argument list the member hands to super.aggregate.apply(this, args):
\* args[0] is the pipeline above, the other arguments are not touched.
Args(seq) == [t |-> "arguments", v |-> seq]

aggregateArgs(tId, args) ==
  LET sent == aggregate(tId, IF args = <<>> THEN Undefined ELSE args[1])
  IN  IF sent = TypeError THEN TypeError
      ELSE IF args = <<>> THEN Args(<<sent>>)
      ELSE Args([args EXCEPT ![1] = sent])

\* m.aggregate(pipeline), called on the class: the member above when the class
\* has it as a static, the compiled model's aggregate otherwise.
ModelAggregate(ms, m, args) ==
  IF StaticOwner(ms, m, "aggregate") # BaseRef
  THEN aggregateArgs(ModelGetTenant(ms, m), args)
  ELSE Args(args)

(***************************************************************************)
(* The three hooks of installMiddleWare.                                   *)
(***************************************************************************)
\* A filter hook without the hasTenantContext guard.
filterQueryMiddlewareUnguarded(ms, m, filter) ==
  SetQueryTenant(filter, ModelGetTenant(ms, m))

\* filterQueryMiddleware: this.model is class m.
filterQueryMiddleware(ms, m, filter) ==
  IF ModelHasTenantContext(ms, m)
  THEN SetQueryTenant(filter, ModelGetTenant(ms, m))
  ELSE filter

\* updateQueryMiddleware: the criteria and the payload after the hook.
updateQueryMiddleware(ms, m, filter, update) ==
  IF ModelHasTenantContext(ms, m)
  THEN [filter |-> SetQueryTenant(filter, ModelGetTenant(ms, m)),
        update |-> QuerySet(update, ModelGetTenant(ms, m))]
  ELSE [filter |-> filter, update |-> update]

\* documentMiddleware: the document's tenant field after the hook;
\* this.constructor is class m.
documentMiddleware(ms, m, tenant) ==
  IF ModelHasTenantContext(ms, m) THEN ModelGetTenant(ms, m) ELSE tenant

\* The hook list an operation runs through before it reaches the store.
SentFilter(ms, m, op, filter) ==
  IF op \in FilterOps THEN filterQueryMiddleware(ms, m, filter)
  ELSE IF op \in UpdateOps THEN updateQueryMiddleware(ms, m, filter, NoUpdate).filter
  ELSE filter

SentUpdate(ms, m, op, filter, update) ==
  IF op \in UpdateOps THEN updateQueryMiddleware(ms, m, filter, update).update
  ELSE update

(***************************************************************************)
(* The store: one collection, documents in insertion order.  `owner` is a  *)
(* history field: the tenantId of the class that constructed the document  *)
(* (Absent for the unbound model).                                         *)
(***************************************************************************)
Matches(doc, filter) ==
  /\ filter.tenant = Absent \/ doc.tenant = filter.tenant
  /\ filter.someField = Absent \/ doc.someField = filter.someField

MatchingIdx(st, filter) == {i \in 1..Len(st) : Matches(st[i], filter)}

FirstOf(S) == IF S = {} THEN {} ELSE {CHOOSE i \in S : \A j \in S : i <= j}

ManyOps  == {"count", "countDocuments", "find", "distinct", "deleteMany", "remove",
             "bulkWrite", "updateMany"}
DeleteOps == {"deleteMany", "remove", "bulkWrite", "deleteOne", "findOneAndDelete",
              "findOneAndRemove"}
ReplaceOps == {"replaceOne", "findOneAndReplace"}

\* Indexes of the documents the store selects for `op` under `filter`:
\* estimatedDocumentCount takes no filter, the *One operations take the first match.
Targets(st, op, filter) ==
  IF op = "estimatedDocumentCount" THEN 1..Len(st)
  ELSE IF op \in ManyOps THEN MatchingIdx(st, filter)
  ELSE FirstOf(MatchingIdx(st, filter))

OrUndefined(v) == IF v = Absent THEN Undefined ELSE v

\* The tenant field is required by the schema (extendSchema: required:
\* this.isTenantIdRequired()).
TenantRequired(sch, tenantIdKey) ==
  \E i \in DOMAIN sch.paths :
     sch.paths[i].key = tenantIdKey /\ IsTrue(sch.paths[i].options, "required")

\* Document validation of the tenant field: null when the document passes.
validate(sch, tenantIdKey, tenant) ==
  IF TenantRequired(sch, tenantIdKey) /\ OrUndefined(tenant) \in Nullish
  THEN ValidationError ELSE Null

\* The tenant value an update payload assigns (Absent: none).
AssignedTenant(u) ==
  IF u.stages # Absent THEN u.stages
  ELSE IF u.set # Absent THEN u.set ELSE u.top

\* A document after the store applied payload u to it.
ApplyUpdate(doc, u) ==
  IF u.overwrite
  THEN [doc EXCEPT !.tenant = OrUndefined(AssignedTenant(u)),
                   !.someField = OrUndefined(u.someField)]
  ELSE [doc EXCEPT !.tenant = IF AssignedTenant(u) = Absent THEN @ ELSE AssignedTenant(u),
                   !.someField = IF u.someField = Absent THEN @ ELSE u.someField]

SelectSeqIdx(st, keep) ==
  LET F[i \in 0..Len(st)] ==
        IF i = 0 THEN <<>>
        ELSE IF i \in keep THEN Append(F[i - 1], st[i]) ELSE F[i - 1]
  IN  F[Len(st)]

\* The collection after `op` ran with the filter and payload that reached it.
Execute(st, op, filter, u) ==
  LET T == Targets(st, op, filter)
  IN  IF op \in DeleteOps THEN SelectSeqIdx(st, (1..Len(st)) \ T)
      ELSE IF op \in UpdateOps
        THEN [i \in 1..Len(st) |-> IF i \in T THEN ApplyUpdate(st[i], u) ELSE st[i]]
      ELSE IF op \in ReplaceOps
        THEN [i \in 1..Len(st) |->
                IF i \in T THEN ApplyUpdate(st[i], [u EXCEPT !.overwrite = TRUE]) ELSE st[i]]
      ELSE st

(***************************************************************************)
(* State machine.                                                          *)
(***************************************************************************)
Refs == 0..Len(models)

ClassRef(r) == [t |-> "class", ref |-> r]
NotCalled   == [t |-> "notCalled"]

NoOp ==
  [op |-> "none", model |-> BaseRef, filter |-> NoFilter, sent |-> NoFilter,
   update |-> NoUpdate, sentUpdate |-> NoUpdate, given |-> <<>>, persisted |-> <<>>,
   matched |-> {}, touched |-> {}, ret |-> Undefined,
   pipeline |-> Undefined, sentPipeline |-> Undefined, err |-> Null, style |-> "promise"]

\* The tenantId closed over by class m (Absent for the unbound model).
BoundTenant(ms, m) == IF m <= BaseRef THEN Absent ELSE ms[m].tenantId

\* An array the caller owns: `heap` holds the stage objects, `pipeline` the
\* array's elements as references into it.
Owned(stages) == [pipeline |-> [i \in DOMAIN stages |-> i], heap |-> stages]
NoPipeline == Owned(<<>>)

\* Cache keys: the strings tenant identifiers stringify to.
CacheKeys == {String(v) : v \in Tenants \cup Nullish}

\* No factory invocation yet.
NotInvoked == [p \in {ModelName, DiscriminatorName} \X CacheKeys |-> 0]

\* new MongooseTenant(schema, options).apply() on the schema and options of d.
Construct(d) ==
  /\ declared = d
  /\ options = MongooseTenant(d.options)
  /\ schema = apply(d.schema, MongooseTenant(d.options))
  /\ enabled = MongooseTenant(d.options).enabled

\* The plugin applied to a plain schema, enabled or disabled.
Init ==
  /\ \E e \in BOOLEAN : Construct([options |-> [enabled |-> e], schema |-> PlainSchema])
  /\ discriminators = {}
  /\ invoked = NotInvoked
  /\ outstanding = <<>>
  /\ callerPipeline = NoPipeline
  /\ modelCache = <<>>
  /\ models = <<>>
  /\ store = <<>>
  /\ nextId = 1
  /\ acc = [v \in Tenants |-> NotCalled]
  /\ last = NoOp

\* Nothing has been called yet on the compiled model.
Started ==
  /\ discriminators = {}
  /\ invoked = NotInvoked
  /\ outstanding = <<>>
  /\ callerPipeline = NoPipeline
  /\ modelCache = <<>>
  /\ models = <<>>
  /\ store = <<>>
  /\ nextId = 1
  /\ acc = [v \in Tenants |-> NotCalled]
  /\ last = NoOp

\* Model[accessorMethod](tenantId), called on class self (the static installed by
\* injectApi; the static copy loop puts it on every bound class as well).
Accessor(self, tenantId) ==
  LET name   == ModelNameOf(models, self)
      key    == String(tenantId)
      byName == IF name \in DOMAIN modelCache THEN modelCache[name] ELSE <<>>
      hit    == key \in DOMAIN byName
      made   == createTenantAwareModel(AccessorFactoryThis, models, discriminators, self,
                                       tenantId)
      threw  == FactoryThrows(AccessorFactoryThis)
      ret    == IF ~enabled THEN ClassRef(self)
                ELSE IF hit THEN ClassRef(byName[key])
                ELSE IF threw THEN TypeError
                ELSE ClassRef(Len(models) + 1)
      put(entries) == [n \in DOMAIN modelCache \cup {name} |->
                         IF n = name THEN entries ELSE modelCache[n]]
  IN  /\ last = NoOp
      /\ enabled /\ ~hit => invoked[<<name, key>>] < MaxCalls
      /\ enabled /\ ~hit /\ ~threw => Len(models) + Len(made) <= MaxModels
      /\ models' = IF enabled /\ ~hit /\ ~threw THEN models \o made
                   ELSE models
      /\ modelCache' =
           IF ~enabled THEN modelCache
           ELSE IF hit \/ threw THEN put(byName)
           ELSE put(byName @@ (key :> Len(models) + 1))
      /\ invoked' = IF enabled /\ ~hit
                    THEN [invoked EXCEPT ![<<name, key>>] = @ + 1] ELSE invoked
      /\ acc' = IF tenantId \in DOMAIN acc THEN [acc EXCEPT ![tenantId] = ret] ELSE acc
      /\ last' = [NoOp EXCEPT !.op = "byTenant", !.model = self, !.given = <<tenantId>>,
                              !.ret = ret]
      /\ UNCHANGED <<callerPipeline, declared, options, schema, discriminators, outstanding, enabled, store, nextId>>

\* plugin.createTenantAwareModel(BaseModel, tenantId), called as a method of the
\* plugin instance (reachable as Model.mongoTenant).
FactoryRebinding(BaseModel, tenantId) ==
  /\ last = NoOp
  /\ Len(models) < MaxModels
  /\ models' = Append([m \in 1..Len(models) |-> [models[m] EXCEPT !.tenantId = tenantId]],
                      createBoundModel(BaseModel, tenantId) @@ [discriminators |-> <<>>])
  /\ last' = [NoOp EXCEPT !.op = "createTenantAwareModel", !.model = BaseModel,
                          !.given = <<tenantId>>, !.ret = ClassRef(Len(models) + 1)]
  /\ UNCHANGED <<callerPipeline, declared, options, schema, discriminators, invoked, outstanding, enabled,
                 modelCache, store, nextId, acc>>

Factory(BaseModel, tenantId) ==
  /\ last = NoOp
  /\ Len(models) + Len(createTenantAwareModel(Plugin, models, discriminators, BaseModel,
                                               tenantId)) <= MaxModels
  /\ models' = models \o createTenantAwareModel(Plugin, models, discriminators, BaseModel,
                                               tenantId)
  /\ last' = [NoOp EXCEPT !.op = "createTenantAwareModel", !.model = BaseModel,
                          !.given = <<tenantId>>, !.ret = ClassRef(Len(models) + 1)]
  /\ UNCHANGED <<callerPipeline, declared, options, schema, discriminators, invoked, outstanding, enabled, modelCache, store, nextId, acc>>

\* A query operation with a filter only, issued as m[op](filter).
Query(m, op, filter) ==
  LET sent == SentFilter(models, m, op, filter)
      T    == Targets(store, op, sent)
  IN  /\ last = NoOp
      /\ store' = Execute(store, op, sent, NoUpdate)
      /\ last' = [NoOp EXCEPT !.op = op, !.model = m, !.filter = filter, !.sent = sent,
                              !.matched = {store[i] : i \in T}]
      /\ UNCHANGED <<callerPipeline, declared, options, schema, discriminators, invoked, outstanding, enabled, modelCache, models, nextId, acc>>

\* An operation with a filter and a payload, issued as m[op](filter, update, options).
Update(m, op, filter, update) ==
  LET sent  == SentFilter(models, m, op, filter)
      sentU == SentUpdate(models, m, op, filter, update)
      T     == Targets(store, op, sent)
  IN  /\ last = NoOp
      /\ store' = Execute(store, op, sent, sentU)
      /\ last' = [NoOp EXCEPT !.op = op, !.model = m, !.filter = filter, !.sent = sent,
                              !.update = update, !.sentUpdate = sentU,
                              !.matched = {store[i] : i \in T},
                              !.touched = {store'[i] : i \in T}]
      /\ UNCHANGED <<callerPipeline, declared, options, schema, discriminators, invoked, outstanding, enabled, modelCache, models, nextId, acc>>

\* model[op](filter, update) returns a Query; nothing has run yet.
Issue(m, op, filter, update) ==
  /\ last = NoOp
  /\ Len(outstanding) < MaxOutstanding
  /\ outstanding' = Append(outstanding,
                           [model |-> m, op |-> op, filter |-> filter, update |-> update,
                            stage |-> "issued", sent |-> filter, sentUpdate |-> update])
  /\ UNCHANGED <<callerPipeline, declared, options, schema, discriminators, invoked, enabled, modelCache,
                 models, store, nextId, acc, last>>

\* exec() runs the pre hooks of outstanding query i: `this` is that query, and
\* this.model the class it was issued on.
RunHooks(i) ==
  LET q == outstanding[i]
  IN  /\ last = NoOp
      /\ q.stage = "issued"
      /\ outstanding' =
           [outstanding EXCEPT
              ![i] = [q EXCEPT !.stage = "hooked",
                               !.sent = SentFilter(models, q.model, q.op, q.filter),
                               !.sentUpdate = SentUpdate(models, q.model, q.op, q.filter,
                                                         q.update)]]
      /\ UNCHANGED <<callerPipeline, declared, options, schema, discriminators, invoked, enabled, modelCache,
                     models, store, nextId, acc, last>>

\* Outstanding query i, its hooks done, is sent to the store.
Dispatch(i) ==
  LET q == outstanding[i]
      T == Targets(store, q.op, q.sent)
  IN  /\ last = NoOp
      /\ q.stage = "hooked"
      /\ store' = Execute(store, q.op, q.sent, q.sentUpdate)
      /\ outstanding' = SelectSeqIdx(outstanding, (1..Len(outstanding)) \ {i})
      /\ last' = [NoOp EXCEPT !.op = q.op, !.model = q.model, !.filter = q.filter,
                              !.sent = q.sent, !.update = q.update,
                              !.sentUpdate = q.sentUpdate,
                              !.matched = {store[j] : j \in T},
                              !.touched = IF q.op \in UpdateOps
                                          THEN {store'[j] : j \in T} ELSE {}]
      /\ UNCHANGED <<callerPipeline, declared, options, schema, discriminators, invoked, enabled, modelCache,
                     models, nextId, acc>>

NewDoc(id, tenant, someField, owner) ==
  [id |-> id, tenant |-> OrUndefined(tenant), someField |-> OrUndefined(someField),
   owner |-> owner, kind |-> Undefined]

\* The discriminator key mongoose writes into a document built by class m.
KindOf(ms, m) == IF RootOf(ms, m) = DiscRef THEN Str(DiscriminatorKey) ELSE Undefined

\* doc = new m({...}); doc.save()  (Model.create goes the same way).  `tenant` is
\* the value the application left in the tenant field before the save.  The
\* document is validated as the application left it, then the hook runs.
Save(m, tenant, someField) ==
  LET err == validate(schema, options.tenantIdKey, tenant)
      doc == [NewDoc(nextId, documentMiddleware(models, m, tenant), someField,
                     BoundTenant(models, m)) EXCEPT !.kind = KindOf(models, m)]
  IN  /\ last = NoOp
      /\ nextId <= MaxStore
      /\ store' = IF err = Null THEN Append(store, doc) ELSE store
      /\ nextId' = IF err = Null THEN nextId + 1 ELSE nextId
      /\ last' = [NoOp EXCEPT !.op = "save", !.model = m, !.given = <<tenant>>,
                              !.persisted = IF err = Null THEN <<doc>> ELSE <<>>,
                              !.err = err]
      /\ UNCHANGED <<callerPipeline, declared, options, schema, discriminators, invoked, outstanding, enabled, modelCache, models, acc>>

\* doc.set(tenantIdKey, tenant); doc.save() on stored document i, which class m
\* constructed: validation, then the document hook, then the write.
Resave(m, i, tenant) ==
  LET err == validate(schema, options.tenantIdKey, tenant)
      doc == [store[i] EXCEPT !.tenant = OrUndefined(documentMiddleware(models, m, tenant))]
  IN  /\ last = NoOp
      /\ store[i].owner = BoundTenant(models, m)
      /\ store[i].kind = KindOf(models, m)
      /\ store' = IF err = Null THEN [store EXCEPT ![i] = doc] ELSE store
      /\ last' = [NoOp EXCEPT !.op = "resave", !.model = m, !.given = <<tenant>>,
                              !.persisted = IF err = Null THEN <<doc>> ELSE <<>>,
                              !.err = err]
      /\ UNCHANGED <<callerPipeline, declared, options, schema, discriminators, invoked, outstanding, enabled,
                     modelCache, models, nextId, acc>>

\* The tenant values insertMany hands to the underlying insert: the override of
\* createBoundModel stamps every document, the inherited insertMany none.
insertMany(ms, m, given) ==
  IF StaticOwner(ms, m, "insertMany") # BaseRef
  THEN [i \in DOMAIN given |-> ModelGetTenant(ms, m)]
  ELSE given

Styles == {"promise", "callback"}

\* A completion that drops the error of the underlying insert.
insertManySwallowed(ms, m, style, err, res) ==
  [err |-> Null, docs |-> res, calls |-> IF style = "callback" THEN 1 ELSE 0]

\* The raw result of an insert (options.rawResult): not an array.
InsertManyResult(n) == [t |-> "insertManyResult", insertedCount |-> n]

\* The callback the insertMany member of createBoundModel hands to
\* super.insertMany, run with (err, res): what it passes to the caller's
\* callback and how many times it calls it.
insertManyCallback(err, res) ==
  IF err # Null THEN [err |-> err, docs |-> res, calls |-> 1]
  ELSE IF res.t # "array" THEN [err |-> Null, docs |-> Undefined, calls |-> 0]
  ELSE [err |-> Null, docs |-> res, calls |-> 1]

\* What insertMany delivers to its caller (the callback's arguments, or the
\* promise's rejection or value) when the underlying insert ended with err and
\* res: the override of createBoundModel passes the error on in both styles and
\* maps the documents on success; the inherited insertMany delivers both as is.
insertManyCompletion(ms, m, style, err, res) ==
  IF StaticOwner(ms, m, "insertMany") # BaseRef
  THEN IF style = "promise"
       THEN IF err # Null THEN [err |-> err, docs |-> Undefined, calls |-> 0]
            ELSE IF res.t # "array" THEN [err |-> TypeError, docs |-> Undefined, calls |-> 0]
            ELSE [err |-> Null, docs |-> res, calls |-> 0]
       ELSE insertManyCallback(err, res)
  ELSE [err |-> err, docs |-> res, calls |-> IF style = "callback" THEN 1 ELSE 0]

\* m.insertMany(docs): `given` holds the tenant value of each document passed;
\* storeErr is the store's verdict on the write (null: accepted).  A document
\* that fails validation fails the whole call before anything is written.
InsertMany(m, given, style, storeErr, rawResult) ==
  LET sentT == insertMany(models, m, given)
      err   == IF \E i \in DOMAIN sentT :
                    validate(schema, options.tenantIdKey, sentT[i]) # Null
               THEN ValidationError ELSE storeErr
      docs  == [i \in DOMAIN given |->
                  NewDoc(nextId + i - 1, sentT[i], Absent, BoundTenant(models, m))]
      res   == IF err # Null THEN Undefined
               ELSE IF rawResult THEN InsertManyResult(Len(docs))
               ELSE Arr(docs)
  IN  /\ last = NoOp
      /\ nextId + Len(given) - 1 <= MaxStore
      /\ store' = IF err = Null THEN store \o docs ELSE store
      /\ nextId' = IF err = Null THEN nextId + Len(given) ELSE nextId
      /\ last' = [NoOp EXCEPT !.op = "insertMany", !.model = m, !.given = given,
                              !.persisted = IF err = Null THEN docs ELSE <<>>,
                              !.err = err, !.style = style,
                              !.ret = insertManyCompletion(models, m, style, err, res)]
      /\ UNCHANGED <<callerPipeline, declared, options, schema, discriminators, invoked, outstanding, enabled, modelCache, models, acc>>

\* handle.model(name), where handle is the `db` read on class m (via = "class")
\* or on a document constructed by m (via = "document"): the connection the
\* compiled model was registered on, or the one of createTenantAwareDb.
Resolve(m, via, name) ==
  LET owner == IF via = "class" THEN StaticOwner(models, m, "db")
               ELSE InstanceOwner(models, m, "db")
      res   == IF owner = BaseRef THEN [ret |-> UnboundRef(name), cache |-> modelCache]
               ELSE awareDbModel(modelCache, options.tenantIdKey,
                                 models[owner].tenantId, name)
  IN  /\ last = NoOp
      /\ modelCache' = res.cache
      /\ last' = [NoOp EXCEPT !.op = "db.model", !.model = m, !.given = <<name, via>>,
                              !.ret = res.ret]
      /\ UNCHANGED <<callerPipeline, declared, options, schema, discriminators, invoked, outstanding, enabled, models, store, nextId, acc>>

\* Model.schema.indexes(): the indexes the schema realizes.
Indexes ==
  /\ last = NoOp
  /\ last' = [NoOp EXCEPT !.op = "schema.indexes", !.ret = Arr(indexes(schema))]
  /\ UNCHANGED <<callerPipeline, declared, options, schema, discriminators, invoked, outstanding, enabled, modelCache, models, store, nextId, acc>>

\* The application calls plugin.extendSchema() on the applied plugin.
ExtendSchema ==
  /\ last = NoOp
  /\ schema' = extendSchema(schema, options)
  /\ last' = [NoOp EXCEPT !.op = "extendSchema"]
  /\ UNCHANGED <<callerPipeline, declared, options, discriminators, invoked, outstanding, enabled,
                 modelCache, models, store, nextId, acc>>

\* The application reads the five getters of Model.mongoTenant.
Introspect ==
  /\ last = NoOp
  /\ last' = [NoOp EXCEPT !.op = "getters",
                          !.ret = [isEnabled |-> isEnabled(options),
                                   getTenantIdKey |-> getTenantIdKey(options),
                                   getTenantIdType |-> getTenantIdType(options),
                                   getAccessorMethod |-> getAccessorMethod(options),
                                   isTenantIdRequired |-> isTenantIdRequired(options)]]
  /\ UNCHANGED <<callerPipeline, declared, options, schema, discriminators, invoked, outstanding, enabled, modelCache, models, store, nextId, acc>>

\* A boolean result.
Bool(b) == [t |-> "boolean", v |-> b]

\* plugin.isCompatibleTo(other)
IsCompatibleTo(other) ==
  /\ last = NoOp
  /\ last' = [NoOp EXCEPT !.op = "isCompatibleTo", !.given = <<other>>,
                          !.ret = Bool(isCompatibleTo(getTenantIdKey(options), other))]
  /\ UNCHANGED <<callerPipeline, declared, options, schema, discriminators, invoked, outstanding, enabled,
                 modelCache, models, store, nextId, acc>>

\* m.aggregate(pipeline): sentPipeline is what reaches the store.
Aggregate(m, args) ==
  LET sent == ModelAggregate(models, m, args)
      Rest(a) == IF a = <<>> THEN <<>> ELSE Tail(a)
  IN
  /\ last = NoOp
  /\ last' = [NoOp EXCEPT !.op = "aggregate", !.model = m,
                          !.pipeline = IF args = <<>> THEN Undefined ELSE args[1],
                          !.given = Rest(args),
                          !.sentPipeline = IF sent = TypeError THEN TypeError
                                           ELSE IF sent.v = <<>> THEN Undefined
                                           ELSE sent.v[1],
                          !.ret = IF sent = TypeError THEN TypeError
                                  ELSE Arr(Rest(sent.v))]
  /\ UNCHANGED <<callerPipeline, declared, options, schema, discriminators, invoked, outstanding, enabled, modelCache, models, store, nextId, acc>>

\* The stages of an owned array, as the store would read them now.
Deref(cp, refs) == [j \in DOMAIN refs |-> cp.heap[refs[j]]]

\* The aggregate member of createBoundModel on the caller's own array: it reads
\* pipeline[0].$match (TypeError on an empty array), writes the tenant key into
\* that stage object, or unshifts a new stage into the array.
aggregateInPlace(tId, cp) ==
  IF cp.pipeline = <<>> THEN TypeError
  ELSE IF cp.heap[cp.pipeline[1]].stage = "$match"
    THEN [cp EXCEPT !.heap[cp.pipeline[1]].tenant = tId]
  ELSE [pipeline |-> <<Len(cp.heap) + 1>> \o cp.pipeline,
        heap |-> Append(cp.heap, MatchStage(tId))]

\* m.aggregate(callerPipeline) called on the class (see ModelAggregate).
ModelAggregateInPlace(ms, m, cp) ==
  IF StaticOwner(ms, m, "aggregate") # BaseRef
  THEN aggregateInPlace(ModelGetTenant(ms, m), cp)
  ELSE cp

\* m.aggregate(pipeline) with the caller's own array: the Aggregate it returns
\* appends the array's elements to a list of its own, so it keeps the same stage
\* objects, and runs later.
AggregateOwned(m) ==
  LET after == ModelAggregateInPlace(models, m, callerPipeline)
  IN  /\ last = NoOp
      /\ Len(outstanding) < MaxOutstanding
      /\ callerPipeline' = IF after = TypeError THEN callerPipeline ELSE after
      /\ outstanding' = IF after = TypeError THEN outstanding
                        ELSE Append(outstanding,
                                    [model |-> m, op |-> "aggregate", stage |-> "aggregate",
                                     refs |-> after.pipeline])
      /\ last' = [NoOp EXCEPT
                    !.op = "aggregate.call", !.model = m,
                    !.pipeline = Arr(Deref(callerPipeline, callerPipeline.pipeline)),
                    !.sentPipeline = IF after = TypeError THEN TypeError
                                     ELSE Arr(Deref(after, after.pipeline))]
      /\ UNCHANGED <<declared, options, schema, discriminators, invoked, enabled, modelCache,
                     models, store, nextId, acc>>

\* Outstanding aggregation i executes: the store reads its stage objects as
\* they are now.
ExecAggregate(i) ==
  LET q == outstanding[i]
  IN  /\ last = NoOp
      /\ q.stage = "aggregate"
      /\ outstanding' = SelectSeqIdx(outstanding, (1..Len(outstanding)) \ {i})
      /\ last' = [NoOp EXCEPT !.op = "aggregate.exec", !.model = q.model,
                              !.sentPipeline = Arr(Deref(callerPipeline, q.refs))]
      /\ UNCHANGED <<callerPipeline, declared, options, schema, discriminators, invoked,
                     enabled, modelCache, models, store, nextId, acc>>

\* The caller has taken the outcome of the latest operation; the next one may start.
Forget ==
  /\ last # NoOp
  /\ last' = NoOp
  /\ UNCHANGED <<callerPipeline, declared, options, schema, discriminators, invoked, outstanding, enabled, modelCache, models, store, nextId, acc>>

GivenDocs == UNION {[1..n -> OrAbsent(DataTenants)] : n \in 1..MaxStore}

\* Payloads for the update operations: a tenant-only criteria, and the payload
\* shapes {someField}, {tenant}, {$set: {tenant}}, both, with and without overwrite.
UpdateFilters == {f \in Filters : f.someField = Absent}

AccessorStep == \E self \in Refs, v \in Tenants : Accessor(self, v)
FactoryStep  == \E v \in Tenants : Factory(BaseRef, v)
DataFactoryStep == \E v \in DataTenants : Factory(BaseRef, v)
QueryStep    == \E m \in Refs, op \in FilterOps \cup {"distinct", "bulkWrite"}, f \in Filters :
                   Query(m, op, f)
UpdateStep   == \E m \in Refs, op \in UpdateOps, f \in UpdateFilters, u \in Updates :
                   Update(m, op, f, u)
ReplaceStep  == \E m \in Refs, op \in ReplaceOps, f \in UpdateFilters, u \in Replacements :
                   Update(m, op, f, u)
SaveStep     == \E m \in Refs, v \in OrAbsent(DataTenants), x \in OrAbsent(FieldValues) :
                   Save(m, v, x)
PlainSaveStep == \E m \in Refs, v \in OrAbsent(DataTenants) : Save(m, v, Absent)
BaseSaveStep == \E v \in OrAbsent(DataTenants) : Save(BaseRef, v, Absent)
InsertManyStep == \E m \in Refs, g \in GivenDocs, style \in Styles, e \in {Null, WriteError},
                     raw \in BOOLEAN : InsertMany(m, g, style, e, raw)

ResolveStep == \E m \in 1..Len(models), via \in {"class", "document"},
                    name \in DOMAIN Registry : Resolve(m, via, name)
\* The options and the callback a caller may pass after the pipeline.
AggregateRest == {<<>>, <<Str("options")>>, <<Str("options"), Str("callback")>>}
AggregateArgs == {<<>>} \cup {<<p>> \o rest : p \in Pipelines, rest \in AggregateRest}
AggregateStep == \E m \in Refs, args \in AggregateArgs : Aggregate(m, args)

\* The plugin applied with its default options (enabled).
InitEnabled == Init /\ enabled

\* The accessor, the factory and the classes they hand out.
NextApi == AccessorStep \/ FactoryStep \/ Forget
SpecApi == Init /\ [][NextApi]_vars

\* Filter-only and replace operations on a collection filled through save.
NextQuery == DataFactoryStep \/ PlainSaveStep \/ QueryStep \/ ReplaceStep \/ Forget
SpecQuery == InitEnabled /\ [][NextQuery]_vars

\* Update operations on a collection filled through the unbound model.
\* Update operations whose payload has the array form.
PipelineUpdateStep == \E m \in Refs, op \in UpdateOps, f \in UpdateFilters,
                         u \in PipelineUpdates : Update(m, op, f, u)
NextPipelineUpdate ==
  DataFactoryStep \/ BaseSaveStep \/ PipelineUpdateStep \/ Forget
SpecPipelineUpdate == InitEnabled /\ [][NextPipelineUpdate]_vars

NextUpdate == DataFactoryStep \/ BaseSaveStep \/ UpdateStep \/ Forget
SpecUpdate == InitEnabled /\ [][NextUpdate]_vars

\* Operations issued through the unbound model while bound classes exist.
BaseQueryStep  == \E op \in FilterOps, f \in Filters : Query(BaseRef, op, f)
BaseUpdateStep == \E op \in UpdateOps, f \in UpdateFilters, u \in Updates :
                     Update(BaseRef, op, f, u)
BaseInsertManyStep ==
  \E g \in GivenDocs, style \in Styles : InsertMany(BaseRef, g, style, Null, FALSE)
NextUnbound ==
  DataFactoryStep \/ BaseSaveStep \/ BaseInsertManyStep \/ BaseQueryStep \/ BaseUpdateStep
    \/ Forget
SpecUnbound == InitEnabled /\ [][NextUnbound]_vars

\* Writes: save, create and insertMany.
NextWrite == DataFactoryStep \/ SaveStep \/ InsertManyStep \/ Forget
SpecWrite == InitEnabled /\ [][NextWrite]_vars

\* Aggregations through the unbound model and the bound classes.
NextAggregate == DataFactoryStep \/ AggregateStep \/ Forget
SpecAggregate == InitEnabled /\ [][NextAggregate]_vars

\* Referenced models resolved through the connection handles of bound classes.
NextPopulate == DataFactoryStep \/ ResolveStep \/ Forget
SpecPopulate == InitEnabled /\ [][NextPopulate]_vars

\* The plugin applied to declared schemas: with default options, disabled, or
\* with a tenant key of its own.
SchemaOptions ==
  {o \in PartialOptions :
     /\ DOMAIN o \subseteq {"enabled", "tenantIdKey"}
     /\ "enabled" \in DOMAIN o => ~o.enabled}

InitSchema ==
  /\ \E o \in SchemaOptions, sch \in DeclaredSchemas :
        Construct([options |-> o, schema |-> sch])
  /\ Started

BaseAccessorStep == \E v \in DataTenants : Accessor(BaseRef, v)
\* Schemas with declared fields, under every choice of the field's options.
ExtendOptions ==
  {o \in PartialOptions :
     DOMAIN o \subseteq {"enabled", "tenantIdKey", "tenantIdType", "requireTenantId"}}
InitExtend ==
  /\ \E o \in ExtendOptions, sch \in {d \in DeclaredSchemas : d.indexes = <<>>} :
        Construct([options |-> o, schema |-> sch])
  /\ Started
NextExtend == ExtendSchema \/ Indexes \/ BaseAccessorStep \/ Forget
SpecExtend == InitExtend /\ [][NextExtend]_vars

NextSchema == Indexes \/ BaseAccessorStep \/ Forget
SpecSchema == InitSchema /\ [][NextSchema]_vars

\* The plugin constructed with every partial options object, on a plain schema.
InitOptions ==
  /\ \E o \in PartialOptions : Construct([options |-> o, schema |-> PlainSchema])
  /\ Started

\* What isCompatibleTo is handed: nothing, null, another plugin instance, or an
\* object with some of the operations.
TenantIdKeys == {"tenant", "tenant_id"}
Others ==
  Nullish \cup {Object(fs, k, TRUE) : fs \in SUBSET PluginApi, k \in TenantIdKeys}
CompatStep == \E other \in Others : IsCompatibleTo(other)
NextCompat == CompatStep \/ BaseAccessorStep \/ Forget
SpecCompat == InitOptions /\ [][NextCompat]_vars

NextOptions == Introspect \/ BaseAccessorStep \/ Forget
SpecOptions == InitOptions /\ [][NextOptions]_vars

\* requireTenantId off and on, with classes bound to null and undefined.
RequireOptions == {o \in PartialOptions : DOMAIN o \subseteq {"requireTenantId"}}

InitRequire ==
  /\ \E o \in RequireOptions : Construct([options |-> o, schema |-> PlainSchema])
  /\ Started

NullishFactoryStep == \E v \in Nullish : Factory(BaseRef, v)
NextRequire == NullishFactoryStep \/ PlainSaveStep \/ Forget
SpecRequire == InitRequire /\ [][NextRequire]_vars

\* The accessor called with every kind of tenant value: string, number, null
\* and undefined.
AnyAccessorStep == \E self \in Refs, v \in Tenants \cup Nullish : Accessor(self, v)
NextAccessor == AnyAccessorStep \/ FactoryStep \/ Forget
SpecAccessor == Init /\ [][NextAccessor]_vars

\* Documents saved, changed by the application and saved again.
ResaveStep == \E m \in Refs, i \in 1..Len(store), v \in DataTenants : Resave(m, i, v)
NextResave == DataFactoryStep \/ PlainSaveStep \/ ResaveStep \/ Forget
SpecResave == InitEnabled /\ [][NextResave]_vars

\* Discriminators: TestModel.discriminator(key, schema) has run on the compiled
\* model before any tenant-bound use; models are bound by the factory and by
\* the accessor of the model, of the discriminator model and of bound classes.
InitDisc ==
  /\ Construct([options |-> <<>>, schema |-> PlainSchema])
  /\ discriminators = {DiscriminatorKey}
  /\ invoked = NotInvoked
  /\ outstanding = <<>>
  /\ callerPipeline = NoPipeline
  /\ modelCache = <<>> /\ models = <<>> /\ store = <<>> /\ nextId = 1
  /\ acc = [v \in Tenants |-> NotCalled]
  /\ last = NoOp

DiscFactoryStep  == \E b \in {BaseRef, DiscRef}, v \in DataTenants : Factory(b, v)
DiscAccessorStep == \E self \in {DiscRef} \cup Refs, v \in DataTenants : Accessor(self, v)
DiscSaveStep     == \E m \in {DiscRef} \cup Refs, v \in OrAbsent(DataTenants) :
                       Save(m, v, Absent)
NextDisc == DiscFactoryStep \/ DiscAccessorStep \/ DiscSaveStep \/ Forget
SpecDisc == InitDisc /\ [][NextDisc]_vars

(***************************************************************************)
(* Properties.                                                             *)
\* One pipeline array of the caller's passed to aggregate on several models.
InitOwned ==
  /\ Construct([options |-> <<>>, schema |-> PlainSchema])
  /\ discriminators = {}
  /\ invoked = NotInvoked
  /\ outstanding = <<>>
  /\ \E p \in Pipelines \ {Undefined} : callerPipeline = Owned(p.v)
  /\ modelCache = <<>> /\ models = <<>> /\ store = <<>> /\ nextId = 1
  /\ acc = [v \in Tenants |-> NotCalled]
  /\ last = NoOp
AggregateOwnedStep == \E m \in Refs : AggregateOwned(m)
ExecAggregateStep  == \E i \in 1..Len(outstanding) : ExecAggregate(i)
NextOwned == DataFactoryStep \/ AggregateOwnedStep \/ ExecAggregateStep \/ Forget
SpecOwned == InitOwned /\ [][NextOwned]_vars

\* The schema compiled on two connections under one model name.
ConnectionAccessorStep ==
  \E self \in {BaseRef, OtherConnectionRef}, v \in DataTenants : Accessor(self, v)
ConnectionFactoryStep ==
  \E b \in {BaseRef, OtherConnectionRef}, v \in DataTenants : Factory(b, v)
NextConnections == ConnectionAccessorStep \/ ConnectionFactoryStep \/ Forget
SpecConnections == InitEnabled /\ [][NextConnections]_vars

\* Saves through classes bound to a tenant, with and without requireTenantId.
NextRequireBound == DataFactoryStep \/ PlainSaveStep \/ Forget
SpecRequireBound == InitRequire /\ [][NextRequireBound]_vars

\* Concurrently outstanding operations on the models of one schema: two queries
\* may be issued, hooked and sent in any order.
ConcurrentUpdates == {u \in Updates : u.someField = Absent /\ ~u.overwrite}
IssueStep ==
  \E m \in Refs, f \in UpdateFilters :
     \/ Issue(m, "find", f, NoUpdate)
     \/ \E u \in ConcurrentUpdates : Issue(m, "updateMany", f, u)
RunHooksStep == \E i \in 1..Len(outstanding) : RunHooks(i)
DispatchStep == \E i \in 1..Len(outstanding) : Dispatch(i)
NextConcurrent ==
  DataFactoryStep \/ IssueStep \/ RunHooksStep \/ DispatchStep \/ Forget
SpecConcurrent == InitEnabled /\ [][NextConcurrent]_vars

\* Every operation of the program.
Next ==
  \/ AccessorStep
  \/ FactoryStep
  \/ QueryStep
  \/ UpdateStep
  \/ ReplaceStep
  \/ SaveStep
  \/ InsertManyStep
  \/ AggregateStep
  \/ ResolveStep
  \/ Indexes
  \/ Introspect
  \/ ExtendSchema
  \/ CompatStep
  \/ ResaveStep
  \/ PipelineUpdateStep
  \/ AggregateOwnedStep
  \/ ExecAggregateStep
  \/ IssueStep
  \/ RunHooksStep
  \/ DispatchStep
  \/ Forget

Spec == Init /\ [][Next]_vars

(***************************************************************************)
Bound(m) == m > BaseRef
TenantOf(m) == BoundTenant(models, m)
Range(f) == {f[i] : i \in DOMAIN f}

\* The operations C1 names: find, count, delete and update through a bound class.
IsolationOps == (FilterOps \ {"estimatedDocumentCount"}) \cup UpdateOps

\* C1: an operation issued through the class bound to t2 matches no document
\* that was constructed by a class bound to another tenant t1, whatever the
\* caller's filter names.
C1_Isolation ==
  (last.op \in IsolationOps /\ Bound(last.model)) =>
     \A d \in last.matched : d.owner \in {Absent, TenantOf(last.model)}

\* C2: for every filter-only operation through a class bound to t, the filter
\* that reaches the store is the caller's filter with the tenant key set to t.
C2_FilterRewritten ==
  (last.op \in FilterOps /\ Bound(last.model)) =>
     last.sent = [last.filter EXCEPT !.tenant = TenantOf(last.model)]

\* C3: no operation of any kind issued through a class bound to t reads,
\* modifies or deletes a document whose tenant field differs from t.
C3_EveryOperationScoped ==
  (last.op \in FilterOps \cup UpdateOps \cup UnhookedOps /\ Bound(last.model)) =>
     \A d \in last.matched : d.tenant = TenantOf(last.model)

\* C4: an update through a class bound to t has its criteria restricted to t,
\* leaves every touched document with tenant = t, and applies the rest of the
\* payload.
C4_UpdateKeepsTenant ==
  (last.op \in UpdateOps /\ Bound(last.model)) =>
     /\ last.sent.tenant = TenantOf(last.model)
     /\ \A d \in last.touched :
          /\ d.tenant = TenantOf(last.model)
          /\ last.update.someField # Absent => d.someField = last.update.someField

\* C5: a document constructed through a class bound to t is persisted by save
\* with tenant = t, whatever the application assigned to the field before.
C5_SaveStamped ==
  (last.op = "save" /\ Bound(last.model)) =>
     \A i \in DOMAIN last.persisted : last.persisted[i].tenant = TenantOf(last.model)

\* C6: insertMany through a class bound to t persists exactly the documents
\* given, in order, each with tenant = t, and its results are documents of the
\* bound class (hasTenantContext true, getTenant() = t).
C6_InsertManyStamped ==
  (last.op = "insertMany" /\ Bound(last.model)) =>
     /\ Len(last.persisted) = Len(last.given)
     /\ \A i \in DOMAIN last.persisted :
          /\ last.persisted[i].tenant = TenantOf(last.model)
          /\ last.persisted[i].id = nextId - Len(last.persisted) + i - 1
     /\ DocHasTenantContext(models, last.model)
     /\ DocGetTenant(models, last.model) = TenantOf(last.model)

\* C7: with the plugin enabled, accessor calls with tenant values that stringify
\* alike return one and the same bound class.
C7_CacheIdentity ==
  \A v, w \in Tenants :
     (enabled /\ String(v) = String(w) /\ acc[v] # NotCalled /\ acc[w] # NotCalled) =>
        /\ acc[v].t = "class"
        /\ acc[v] = acc[w]
        /\ Bound(acc[v].ref)

\* C8: the class returned by the accessor for v, and the documents constructed
\* from it, report getTenant() = v, the value the caller passed.
C8_GetTenantIsArgument ==
  (enabled /\ last.op = "byTenant") =>
     /\ last.ret.t = "class"
     /\ ModelGetTenant(models, last.ret.ref) = last.given[1]
     /\ DocGetTenant(models, last.ret.ref) = last.given[1]

\* C9: hasTenantContext is true on every bound class and on the documents it
\* constructs, and undefined on the unbound model, on its documents and on what
\* the accessor returns when the plugin is disabled.
C9_CapabilityProbe ==
  /\ \A m \in 1..Len(models) :
       ModelHasTenantContext(models, m) /\ DocHasTenantContext(models, m)
  /\ ~ModelHasTenantContext(models, BaseRef)
  /\ ~DocHasTenantContext(models, BaseRef)
  /\ (~enabled /\ last.op = "byTenant" /\ last.model = BaseRef) =>
        /\ last.ret.t = "class"
        /\ ~ModelHasTenantContext(models, last.ret.ref)
        /\ ~DocHasTenantContext(models, last.ret.ref)

\* C10: an operation issued through the unbound model reaches the store as the
\* caller gave it: the filter, the payload and the documents' tenant values are
\* unchanged, so find({}) sees the documents of every tenant and an update can
\* reassign a document's tenant.
C10_UnboundUntouched ==
  last.model = BaseRef =>
     /\ last.sent = last.filter
     /\ last.sentUpdate = last.update
     /\ last.op \in {"save", "insertMany"} =>
          /\ Len(last.persisted) = Len(last.given)
          /\ \A i \in DOMAIN last.given :
               last.persisted[i].tenant = OrUndefined(last.given[i])
     /\ (last.op = "find" /\ last.filter = NoFilter) => last.matched = Range(store)
     /\ (last.op \in UpdateOps /\ AssignedTenant(last.update) # Absent) =>
          \A d \in last.touched : d.tenant = AssignedTenant(last.update)

\* An update through the unbound model moved a document from one tenant to
\* another while bound classes exist.
C10_Witness ==
  /\ last.model = BaseRef
  /\ last.op = "updateMany"
  /\ Len(models) > 0
  /\ \E d \in last.touched, e \in last.matched :
       /\ e.id = d.id
       /\ e.tenant \in DataTenants
       /\ d.tenant \in DataTenants
       /\ e.tenant # d.tenant

\* C11: a delete or update through a class bound to t2 whose filter names another
\* tenant t1 affects no document: nothing is matched, so the store is unchanged
\* and t1's documents are still present.
C11_CrossTenantNoOp ==
  (/\ last.op \in (DeleteOps \cap FilterOps) \cup UpdateOps
   /\ Bound(last.model)
   /\ last.filter.tenant \notin {Absent, TenantOf(last.model)}) =>
     last.matched = {}

\* C12: whatever pipeline is passed to aggregate on a class bound to t (none, an
\* empty array, one starting with $match or with another stage), the pipeline
\* that reaches the store starts with a $match on tenant = t; none and the empty
\* array become the single stage {$match: {tenant: t}}.
C12_AggregateFirstStage ==
  (last.op = "aggregate" /\ Bound(last.model)) =>
     /\ last.sentPipeline.t = "array"
     /\ Len(last.sentPipeline.v) >= 1
     /\ last.sentPipeline.v[1].stage = "$match"
     /\ last.sentPipeline.v[1].tenant = TenantOf(last.model)
     /\ last.pipeline \in {Undefined, Arr(<<>>)} =>
          last.sentPipeline = Arr(<<MatchStage(TenantOf(last.model))>>)

\* C13: resolving a referenced model by name through the connection handle of a
\* class bound to t returns that model bound to t when its plugin is compatible
\* (same tenant key), and the model as compiled, without an error, when it has
\* no plugin or another tenant key.
C13_PopulationBoundary ==
  last.op = "db.model" =>
     IF isCompatibleTo(options.tenantIdKey, Registry[last.given[1]])
     THEN last.ret = BoundRef(last.given[1], TenantOf(last.model))
     ELSE last.ret = UnboundRef(last.given[1])

\* The application passed enabled: false.
Disabled == "enabled" \in DOMAIN declared.options /\ ~declared.options.enabled

\* C14: with enabled = false the accessor returns the compiled model itself for
\* every tenant value (no hasTenantContext, no getTenant), the model cache stays
\* empty, and the schema is as declared: no tenant field, no index rewritten.
C14_DisabledPlugin ==
  Disabled =>
     /\ schema = declared.schema
     /\ indexes(schema) = indexes(declared.schema)
     /\ modelCache = <<>>
     /\ \A v \in Tenants : acc[v] \in {NotCalled, ClassRef(BaseRef)}
     /\ last.op = "byTenant" =>
          /\ last.ret = ClassRef(last.model)
          /\ ~ModelHasTenantContext(models, last.ret.ref)
          /\ ModelGetTenant(models, last.ret.ref) = TypeError

\* The accessor was called on a disabled plugin whose schema declares a unique
\* field and a unique schema-level index.
C14_Witness ==
  /\ Disabled
  /\ last.op = "byTenant"
  /\ \E v \in Tenants : acc[v] = ClassRef(BaseRef) /\ last.given # <<v>>
  /\ \E i \in DOMAIN declared.schema.paths : ~SkipIndex(declared.schema.paths[i].options)
  /\ \E i \in DOMAIN declared.schema.indexes : ~SkipIndex(declared.schema.indexes[i].options)

\* The keys of a key list, and the realized indexes whose key list is `def`.
Fields(def) == {def[i].field : i \in DOMAIN def}
Realized(def) == {ix \in Range(indexes(schema)) : ix.def = def}

\* C15: with the plugin applied, every declared schema-level index that is
\* unique without preserveUniqueKey has the tenant key first, followed by its
\* original keys in their order and directions, and keeps its options; every
\* declared index that is not unique keeps its key list, without the tenant key.
C15_SchemaLevelIndexes ==
  enabled =>
     /\ Len(schema.indexes) >= Len(declared.schema.indexes)
     /\ \A i \in DOMAIN declared.schema.indexes :
          LET d == declared.schema.indexes[i]
              a == schema.indexes[i]
          IN  /\ a.options = d.options
              /\ (IsTrue(d.options, "unique") /\ ~IsTrue(d.options, "preserveUniqueKey")) =>
                    a.def = <<Key(options.tenantIdKey, 1)>> \o d.def
              /\ ~IsTrue(d.options, "unique") =>
                    a.def = d.def /\ options.tenantIdKey \notin Fields(a.def)

\* The schema declared a unique index over two keys and an index that is not
\* unique, and its indexes have been read.
C15_Witness ==
  /\ enabled
  /\ last.op = "schema.indexes"
  /\ \E i, j \in DOMAIN declared.schema.indexes :
       /\ ~SkipIndex(declared.schema.indexes[i].options)
       /\ Len(declared.schema.indexes[i].def) = 2
       /\ ~IsTrue(declared.schema.indexes[j].options, "unique")

\* C16: for every field declared unique without preserveUniqueKey, the realized
\* indexes no longer hold the single-field index of that field, they hold a
\* unique compound index over {tenant: 1, field: 1} that carries the field's
\* options, and every realized index over the field also has the tenant key.
C16_FieldLevelIndexes ==
  enabled =>
     \A i \in DOMAIN declared.schema.paths :
        LET p == declared.schema.paths[i]
        IN  ~SkipIndex(p.options) =>
              /\ Realized(<<Key(p.key, 1)>>) = {}
              /\ \E ix \in Realized(<<Key(options.tenantIdKey, 1), Key(p.key, 1)>>) :
                   /\ IsTrue(ix.options, "unique")
                   /\ \A k \in DOMAIN p.options : ix.options[k] = p.options[k]
              /\ \A ix \in Range(indexes(schema)) :
                   p.key \in Fields(ix.def) => options.tenantIdKey \in Fields(ix.def)

\* C17: an index declared with preserveUniqueKey = true is left as declared: a
\* schema-level one keeps its key list and options, a field keeps its options
\* and its single-field index, and no compound index with the tenant key is
\* declared for it.
C17_PreserveUniqueKey ==
  enabled =>
     /\ \A i \in DOMAIN declared.schema.indexes :
          IsTrue(declared.schema.indexes[i].options, "preserveUniqueKey") =>
             schema.indexes[i] = declared.schema.indexes[i]
     /\ \A i \in DOMAIN declared.schema.paths :
          LET p == declared.schema.paths[i]
          IN  IsTrue(p.options, "preserveUniqueKey") =>
                /\ schema.paths[i] = p
                /\ Index(<<Key(p.key, 1)>>, p.options) \in Range(indexes(schema))
                /\ \A j \in DOMAIN schema.indexes :
                     j > Len(declared.schema.indexes) =>
                        schema.indexes[j].def # <<Key(options.tenantIdKey, 1), Key(p.key, 1)>>

\* The schema declared a unique field and a unique index, both with
\* preserveUniqueKey, next to a unique field without it.
C17_Witness ==
  /\ enabled
  /\ last.op = "schema.indexes"
  /\ \E i, j \in DOMAIN declared.schema.paths :
       /\ IsTrue(declared.schema.paths[i].options, "unique")
       /\ IsTrue(declared.schema.paths[i].options, "preserveUniqueKey")
       /\ ~SkipIndex(declared.schema.paths[j].options)
  /\ \E i \in DOMAIN declared.schema.indexes :
       /\ IsTrue(declared.schema.indexes[i].options, "unique")
       /\ IsTrue(declared.schema.indexes[i].options, "preserveUniqueKey")

C19_RequireTenantId ==
  (last.op = "save" /\ Bound(last.model) /\ TenantOf(last.model) \in Nullish) =>
     IF options.requireTenantId
     THEN last.err = ValidationError /\ last.persisted = <<>>
     ELSE /\ last.err = Null
          /\ Len(last.persisted) = 1
          /\ DocGetTenant(models, last.model) \in Nullish

C21_DiscriminatorInheritance ==
  /\ \A m \in 1..Len(models) :
        LET inherited == DiscriminatorsOf(models, discriminators, models[m].base)
            registry  == models[m].discriminators
        IN  /\ DOMAIN registry = DOMAIN inherited
            /\ \A k \in DOMAIN registry :
                  /\ Bound(registry[k])
                  /\ RootOf(models, registry[k]) = RootOf(models, inherited[k])
                  /\ ModelGetTenant(models, registry[k]) = models[m].tenantId
  /\ (last.op = "save" /\ Bound(last.model) /\ RootOf(models, last.model) = DiscRef
        /\ last.err = Null)
       => /\ last.persisted[1].kind = Str(DiscriminatorKey)
          /\ last.persisted[1].tenant = TenantOf(last.model)
\* C22: over any sequence of accessor calls, on models, discriminator models
\* and bound classes alike, the factory is invoked at most once per pair of
\* model name and stringified tenant, and a cache entry, once present, is never
\* evicted or replaced.
C22_FactoryOncePerKey ==
  /\ [](\A p \in DOMAIN invoked : invoked[p] <= 1)
  /\ [][\A n \in DOMAIN modelCache : \A k \in DOMAIN modelCache[n] :
          /\ n \in DOMAIN modelCache'
          /\ k \in DOMAIN modelCache'[n]
          /\ modelCache'[n][k] = modelCache[n][k]]_vars
\* C23: in every interleaving of outstanding operations issued through bound
\* models of different tenants, each operation has its tenant filter and
\* payload applied before it reaches the store, and the request carries the
\* issuing model's tenant, never that of another outstanding operation.
C23_ConcurrentBinding ==
  /\ \A i \in 1..Len(outstanding) :
        LET q == outstanding[i]
        IN  (q.stage = "hooked" /\ Bound(q.model))
              => /\ q.sent.tenant = TenantOf(q.model)
                 /\ q.op \in UpdateOps
                      => /\ q.sentUpdate.top \in {Absent, TenantOf(q.model)}
                         /\ q.sentUpdate.set = TenantOf(q.model)
  /\ (last.op \in {"find", "updateMany"} /\ Bound(last.model))
       => /\ last.sent.tenant = TenantOf(last.model)
          /\ last.op \in UpdateOps => last.sentUpdate.set = TenantOf(last.model)
\* C24: for a model bound to tenant t, two invocations of the same hooked
\* operation that differ only in the tenant value the caller supplied (in the
\* filter, in the payload, on the document) send requests to the store whose
\* tenant key is the same, namely t.
C24_NonInterference ==
  /\ \A i, j \in 1..Len(outstanding) :
        LET p == outstanding[i]
            q == outstanding[j]
        IN  (/\ p.stage = "hooked" /\ q.stage = "hooked"
             /\ Bound(p.model) /\ p.model = q.model /\ p.op = q.op
             /\ p.filter.someField = q.filter.someField
             /\ p.update.someField = q.update.someField)
              => /\ p.sent.tenant = q.sent.tenant
                 /\ p.sent.tenant = TenantOf(p.model)
                 /\ p.op \in UpdateOps
                      => /\ p.sentUpdate.set = q.sentUpdate.set
                         /\ p.sentUpdate.set = TenantOf(p.model)
  /\ \A m \in 1..Len(models) : \A v, w \in OrAbsent(DataTenants) :
        /\ documentMiddleware(models, m, v) = documentMiddleware(models, m, w)
        /\ documentMiddleware(models, m, v) = TenantOf(m)
\* C25: isCompatibleTo(other) is true exactly when other exists, has
\* getAccessorMethod and getTenantIdKey as functions, and its tenant key equals
\* this plugin's; it is false in every other case (no plugin, an operation
\* missing, another key) and never raises; between two plugin instances the
\* answer is the same in both directions.
C25_IsCompatibleTo ==
  last.op = "isCompatibleTo" =>
     LET other == last.given[1]
         mine  == PluginInstance(getTenantIdKey(options), isEnabled(options))
     IN  /\ last.ret \in {Bool(TRUE), Bool(FALSE)}
         /\ last.ret = Bool(TRUE)
              <=> /\ other \notin Nullish
                  /\ PluginApi \subseteq other.functions
                  /\ other.tenantIdKey = getTenantIdKey(options)
         /\ (other \notin Nullish /\ other.functions = PluginApi)
              => (isCompatibleTo(other.tenantIdKey, mine) <=> last.ret = Bool(TRUE))

C25_Witness ==
  /\ last.op = "isCompatibleTo"
  /\ last.ret = Bool(FALSE)
  /\ last.given[1] \notin Nullish
  /\ last.given[1].tenantIdKey = getTenantIdKey(options)
C27_AccessorCompletes ==
  (enabled /\ last.op = "byTenant")
    => /\ last.ret # TypeError
       /\ last.ret.t = "class"
       /\ Bound(last.ret.ref)
       /\ BoundTenant(models, last.ret.ref) = last.given[1]
\* C28: on an enabled plugin the schema has, after apply(), exactly one field
\* named tenantIdKey, of type tenantIdType, indexed, and required exactly when
\* requireTenantId is set; calling extendSchema() again leaves that single
\* field and the rest of the schema as they are, and no operation removes it.
C28_SingleTenantField ==
  /\ enabled =>
       /\ Cardinality({i \in DOMAIN schema.paths :
                         schema.paths[i].key = getTenantIdKey(options)}) = 1
       /\ \A i \in DOMAIN schema.paths :
             schema.paths[i].key = getTenantIdKey(options)
               => schema.paths[i].options =
                    [index |-> TRUE, type |-> getTenantIdType(options),
                     required |-> isTenantIdRequired(options)]
  /\ schema = apply(declared.schema, options)

C28_Witness ==
  /\ enabled /\ isTenantIdRequired(options) /\ Len(schema.paths) > 1
  /\ last.op = "extendSchema"
\* C29: aggregate on a class bound to t changes nothing but the tenant
\* constraint.  When the first stage is a $match, only its tenant key is set to
\* t and no stage is added; otherwise exactly one $match on tenant = t is put in
\* front; the caller's stages keep their content and order, and the options and
\* the callback are passed on as given.
C29_AggregateFrame ==
  (last.op = "aggregate" /\ Bound(last.model)) =>
     LET t    == TenantOf(last.model)
         src  == IF last.pipeline = Undefined THEN <<>> ELSE last.pipeline.v
         sent == last.sentPipeline
     IN  /\ sent # TypeError /\ sent.t = "array"
         /\ last.ret = Arr(last.given)
         /\ IF src # <<>> /\ src[1].stage = "$match"
            THEN sent.v = [src EXCEPT ![1].tenant = t]
            ELSE sent.v = <<MatchStage(t)>> \o src
\* C30: the document hook takes the tenant from the document's constructor.  A
\* document built by a model bound to t is written with tenant = t on every
\* save, also when the application changed its tenant field before saving it
\* again; a document built by the model as compiled is written with the tenant
\* the application assigned.
C30_DocumentConstructor ==
  (last.op \in {"save", "resave"} /\ last.err = Null) =>
     IF Bound(last.model)
     THEN last.persisted[1].tenant = TenantOf(last.model)
     ELSE last.persisted[1].tenant = OrUndefined(last.given[1])
\* The outcomes of the underlying insert: failure, an array of documents, a raw
\* result.
InsertOutcomes ==
  {[err |-> WriteError, res |-> Undefined], [err |-> Null, res |-> Arr(<<>>)],
   [err |-> Null, res |-> InsertManyResult(1)]}

C32_UpdateCannotMoveTenant ==
  (last.op \in UpdateOps /\ Bound(last.model)) =>
     \A d \in last.touched :
        \/ d.tenant = TenantOf(last.model)
        \/ \E b \in last.matched : b.id = d.id /\ b.tenant = d.tenant
\* C33: when the caller passes one pipeline array to aggregate on classes bound
\* to different tenants, then, however the calls and the executions interleave,
\* each aggregation executes with a leading $match on the tenant of the class it
\* was issued through.
C33_OwnedPipelineTenants ==
  (last.op = "aggregate.exec" /\ Bound(last.model)) =>
     /\ Len(last.sentPipeline.v) >= 1
     /\ last.sentPipeline.v[1].stage = "$match"
     /\ last.sentPipeline.v[1].tenant = TenantOf(last.model)

\* C34: aggregate called again and again on one bound class with the caller's
\* same pipeline array leaves the array with one leading $match on the class's
\* tenant in front of the caller's stages, as after the first call: a call on an
\* array that has it already changes nothing.
C34_RewriteIdempotent ==
  (last.op = "aggregate.call" /\ Bound(last.model)) =>
     LET t      == TenantOf(last.model)
         before == last.pipeline.v
         after  == last.sentPipeline
     IN  /\ after # TypeError
         /\ after.v # <<>> /\ after.v[1].stage = "$match" /\ after.v[1].tenant = t
         /\ (before # <<>> /\ before[1].stage = "$match" /\ before[1].tenant = t)
              => after.v = before
         /\ Len(after.v) <= Len(before) + 1
\* C35: the class the accessor returns is derived from the model it was called
\* on: with one schema compiled under one name on two connections, the accessor
\* of each compiled model returns a class bound to the tenant whose base chain
\* ends in that model, in whichever order the calls are made.
C35_DerivedFromReceiver ==
  (enabled /\ last.op = "byTenant") =>
     /\ last.ret # TypeError
     /\ Bound(last.ret.ref)
     /\ RootOf(models, last.ret.ref) = RootOf(models, last.model)
     /\ BoundTenant(models, last.ret.ref) = last.given[1]
\* C36: the accessor called with t2 on a class already bound to t1 returns a
\* class bound to t2 only: getTenant() is t2, its filter hook restricts to t2,
\* and it is the class cached for t2 under the model's name, the one the
\* accessor of the compiled model returns for t2.
C36_RebindThroughBound ==
  (enabled /\ last.op = "byTenant" /\ Bound(last.model)) =>
     LET t2 == last.given[1]
     IN  /\ last.ret # TypeError
         /\ Bound(last.ret.ref)
         /\ ModelGetTenant(models, last.ret.ref) = t2
         /\ filterQueryMiddleware(models, last.ret.ref, NoFilter).tenant = t2
         /\ ModelName \in DOMAIN modelCache
         /\ String(t2) \in DOMAIN modelCache[ModelName]
         /\ modelCache[ModelName][String(t2)] = last.ret.ref
\* C37: with requireTenantId set and a class bound to a tenant t that is not
\* null, saving a document the class constructed without a tenant value
\* succeeds and persists tenant = t: the stamp precedes the required-field
\* validation.
C37_StampBeforeValidation ==
  (/\ last.op = "save" /\ Bound(last.model)
   /\ enabled /\ TenantRequired(schema, options.tenantIdKey)
   /\ last.given = <<Absent>>
   /\ TenantOf(last.model) \notin Nullish)
    => /\ last.err = Null
       /\ Len(last.persisted) = 1
       /\ last.persisted[1].tenant = TenantOf(last.model)
====
